---- MODULE Spec2Model ----
(***************************************************************************)
(* remix-response: response helpers that wait on every promise of a data   *)
(* object before serializing it (src/src/index.ts).                        *)
(*                                                                         *)
(* The state is one call of an exported helper: the arguments it was       *)
(* given, the promises held by the data object, the Response it returned,  *)
(* the Readable stream behind that Response's body, the eager hashSettled  *)
(* run started by the call, and one run per call of the response's then.   *)
(* A second call of a helper, with a response, a stream and runs of its    *)
(* own, is kept as one record.                                             *)
(***************************************************************************)
EXTENDS Integers, Sequences, FiniteSets, TLC

VARIABLES
  op,          \* the exported helper that was called (a row of Bindings), NoOp before
  data,        \* the data object handed to the helper
  init,        \* the init argument handed to the helper
  url,         \* the url handed to a redirect helper
  promises,    \* state of the promise with id p
  response,    \* the Response object the helper returned
  stream,      \* the pushes made on the Readable behind response.body
  eager,       \* the hashSettled(data) run started in responseFunction
  runs,        \* one record per call of response.then, in call order
  other        \* a second call of a helper: what it was given and what it made

vars == <<op, data, init, url, promises, response, stream, eager, runs, other>>

(***************************************************************************)
(* Bounds of the model.                                                    *)
(***************************************************************************)
MaxKeys == 2       \* properties of a data object
MaxThen == 1       \* calls of then on one response
BindKeys == 1      \* properties of a data object when every binding is explored
MaxAwaits == 2     \* calls of then on one response when awaits are compared

(***************************************************************************)
(* JavaScript values.                                                      *)
(***************************************************************************)
Undefined == [t |-> "undefined"]
True == [t |-> "boolean", b |-> TRUE]
Str(s) == [t |-> "string", s |-> s]
Err(name, message) == [t |-> "error", name |-> name, message |-> message]
Obj(props) == [t |-> "object", props |-> props]
Prop(key, value) == [key |-> key, value |-> value]
Promise(id) == [t |-> "promise", id |-> id]

Keys == <<"a", "b", "c", "d">>

\* The values a property holds directly, a promise fulfills with, or a
\* promise rejects with: a string, an Error, an object holding an Error.
Values ==
  { Str("a"),
    Err("TypeError", "asdf"),
    Obj(<<Prop("cause", Err("Error", "x"))>>) }

PromiseIds == 1..MaxKeys

\* Data objects of n properties: property i is a plain value or promise i.
DataOfLen(n) ==
  { Obj([i \in 1..n |-> Prop(Keys[i], f[i])]) :
      f \in [1..n -> Values \cup {Promise(i) : i \in PromiseIds}] }

IsWellFormed(d) ==
  \A i \in 1..Len(d.props) :
    d.props[i].value.t = "promise" => d.props[i].value.id = i

DataUpTo(n) == UNION { {d \in DataOfLen(k) : IsWellFormed(d)} : k \in 0..n }

\* An init argument: its own properties other than headers, the entries of
\* its headers, and what holds them: an object literal ("record") or a
\* Headers instance ("Headers").
NoInit ==
  [given |-> FALSE, props |-> <<>>, headers |-> <<>>, headersKind |-> "record"]

\* init arguments: none, extra headers, extra headers and a status property.
Inits ==
  { NoInit,
    [given |-> TRUE, props |-> <<>>,
     headers |-> <<Prop("X-Custom", "1")>>, headersKind |-> "record"],
    [given |-> TRUE, props |-> <<Prop("status", 299)>>,
     headers |-> <<Prop("X-Custom", "1")>>, headersKind |-> "record"] }

\* init arguments whose headers are new Headers({'X-Custom': '1'})
HeadersInits ==
  { [given |-> TRUE, props |-> <<>>,
     headers |-> <<Prop("X-Custom", "1")>>, headersKind |-> "Headers"] }

Urls == {"https://www.example.com", "/login"}

(***************************************************************************)
(* Object helpers.                                                         *)
(***************************************************************************)
ObjectValues(o) == [i \in 1..Len(o.props) |-> o.props[i].value]

ObjectKeys(o) == [i \in 1..Len(o.props) |-> o.props[i].key]

\* keys.map((prop, i) => [prop, values[i]]) then Object.fromEntries
FromEntries(keys, values) ==
  Obj([i \in 1..Len(keys) |->
        Prop(keys[i], IF i <= Len(values) THEN values[i] ELSE Undefined)])

HasKey(props, key) == \E i \in 1..Len(props) : props[i].key = key

\* { ...props, [key]: value }: an own key keeps its place, a new one is appended
SetProp(props, key, value) ==
  IF HasKey(props, key)
  THEN [i \in 1..Len(props) |->
          IF props[i].key = key THEN Prop(key, value) ELSE props[i]]
  ELSE Append(props, Prop(key, value))

GetProp(props, key) ==
  LET i == CHOOSE j \in 1..Len(props) : props[j].key = key IN props[i].value

\* { ...init?.headers }: the own enumerable properties of init.headers; a
\* Headers instance keeps its entries inside and has none
SpreadHeaders(i) == IF i.headersKind = "record" THEN i.headers ELSE <<>>

(***************************************************************************)
(* errorReplacer and JSON.stringify.                                       *)
(***************************************************************************)
\* errorReplacer without its instanceof Error branch
errorReplacer_noop(value) == value

errorReplacer(value) ==
  IF value.t = "error"
  THEN Obj(<<Prop("message", Str(value.message)),
             Prop("name", Str(value.name)),
             Prop("isError", True)>>)
  ELSE value

Quote(s) == "\"" \o s \o "\""

RECURSIVE Stringify(_, _)

\* "key":text, or nothing for a property whose value has no JSON form
Member(key, text) == IF text = "" THEN "" ELSE Quote(key) \o ":" \o text

\* members joined by commas (each name below is bound to a value once)
Comma(item, rest) ==
  IF item = "" THEN rest ELSE IF rest = "" THEN item ELSE item \o "," \o rest

RECURSIVE StringifyProps(_, _)
StringifyProps(props, replacer) ==
  IF props = <<>> THEN ""
  ELSE CHOOSE text \in
         { Comma(Member(props[1].key, s), rest) :
             s \in {Stringify(props[1].value, replacer)},
             rest \in {StringifyProps(Tail(props), replacer)} } : TRUE

\* JSON.stringify(value, replacer); "" stands for the undefined it returns
\* for a value that has no JSON form.  replacer is "errorReplacer" or "none".
Stringify(value, replacer) ==
  CHOOSE text \in
    { CASE v.t = "string" -> Quote(v.s)
        [] v.t = "boolean" -> IF v.b THEN "true" ELSE "false"
        [] v.t = "undefined" -> ""
        [] v.t = "error" -> "{}"
        [] v.t = "promise" -> "{}"
        [] v.t = "object" -> "{" \o StringifyProps(v.props, replacer) \o "}" :
      v \in {IF replacer = "errorReplacer" THEN errorReplacer(value) ELSE value} }
    : TRUE

(***************************************************************************)
(* Promise.all and Promise.allSettled over an array of values.             *)
(***************************************************************************)
StateOf(v) == IF v.t = "promise" THEN promises[v.id].state ELSE "fulfilled"

IsPending(v) == StateOf(v) = "pending"
IsRejected(v) == StateOf(v) = "rejected"
IsFulfilled(v) == StateOf(v) = "fulfilled"

Outcome(v) == IF v.t = "promise" THEN promises[v.id].value ELSE v

\* Promise.all that fulfills as soon as no value is pending
AllFulfilled_settled(values) == \A i \in 1..Len(values) : ~IsPending(values[i])

\* Promise.all that needs at least one value to fulfill
AllFulfilled_some(values) ==
  values # <<>> /\ \A i \in 1..Len(values) : IsFulfilled(values[i])

AllFulfilled(values) == \A i \in 1..Len(values) : IsFulfilled(values[i])
\* Promise.all that rejects only when no value is pending any more
AnyRejected_afterAll(values) ==
  /\ \A i \in 1..Len(values) : ~IsPending(values[i])
  /\ \E i \in 1..Len(values) : IsRejected(values[i])

AnyRejected(values) == \E i \in 1..Len(values) : IsRejected(values[i])
\* Promise.all in the place of Promise.allSettled: it never fulfills once a
\* value has rejected
AllSettled_failFast(values) == \A i \in 1..Len(values) : IsFulfilled(values[i])
\* Promise.allSettled that fulfills as soon as one value has settled
AllSettled_any(values) ==
  values = <<>> \/ \E i \in 1..Len(values) : ~IsPending(values[i])

AllSettled(values) == \A i \in 1..Len(values) : ~IsPending(values[i])

PromiseAll(values) == [i \in 1..Len(values) |-> Outcome(values[i])]

\* a record that tags every outcome as fulfilled
SettledRecord_fulfilledOnly(v) ==
  Obj(<<Prop("status", Str("fulfilled")), Prop("value", Outcome(v))>>)

SettledRecord(v) ==
  IF IsRejected(v)
  THEN Obj(<<Prop("status", Str("rejected")), Prop("reason", Outcome(v))>>)
  ELSE Obj(<<Prop("status", Str("fulfilled")), Prop("value", Outcome(v))>>)

PromiseAllSettled(values) == [i \in 1..Len(values) |-> SettledRecord(values[i])]

\* hash without the await: the values are paired with the keys as they are
hash_unawaited(d, values) == FromEntries(ObjectKeys(d), values)

\* hash: the object an awaited hash call returns; values were read when the
\* call started, the keys are read from d when Promise.all has fulfilled.
hash(d, values) == FromEntries(ObjectKeys(d), PromiseAll(values))

\* hashSettled built on Promise.all: the outcomes without their records
hashSettled_unwrapped(d, values) == FromEntries(ObjectKeys(d), PromiseAll(values))

\* hashSettled: likewise with Promise.allSettled.
hashSettled(d, values) == FromEntries(ObjectKeys(d), PromiseAllSettled(values))

(***************************************************************************)
(* Response objects.                                                       *)
(***************************************************************************)
NullBody == [kind |-> "null", text |-> ""]
StreamBody == [kind |-> "stream", text |-> ""]
TextBody(s) == [kind |-> "text", text |-> s]

NoResponse ==
  [status |-> 0, headers |-> <<>>, body |-> NullBody, then |-> FALSE]

ContentType == "application/json; charset=utf-8"

\* makeResponse with init spread after status: { status, ...init, headers }
makeResponse_initLast(status, body, i) ==
  [status |-> IF HasKey(i.props, "status") THEN GetProp(i.props, "status")
              ELSE status,
   headers |-> SetProp(SpreadHeaders(i), "Content-Type",
                       "application/json; charset=utf-8"),
   body |-> body,
   then |-> FALSE]

\* new Response(body, { ...init, status, headers: { ...init?.headers,
\*                      'Content-Type': ... } })
makeResponse(status, body, i) ==
  LET options == SetProp(SetProp(i.props, "status", status), "headers",
                         SetProp(SpreadHeaders(i), "Content-Type", ContentType))
  IN [status |-> GetProp(options, "status"),
      headers |-> GetProp(options, "headers"),
      body |-> body,
      then |-> FALSE]

\* the table of exported helpers
Bindings ==
  { [name |-> "ok", status |-> 200, builder |-> "responseFunction"],
    [name |-> "created", status |-> 201, builder |-> "responseFunction"],
    [name |-> "noContent", status |-> 204, builder |-> "noContent"],
    [name |-> "resetContent", status |-> 205, builder |-> "responseFunction"],
    [name |-> "partialContent", status |-> 206, builder |-> "responseFunction"],
    [name |-> "movedPermanently", status |-> 301, builder |-> "redirectFunction"],
    [name |-> "found", status |-> 302, builder |-> "redirectFunction"],
    [name |-> "seeOther", status |-> 303, builder |-> "redirectFunction"],
    [name |-> "notModified", status |-> 304, builder |-> "redirectFunction"],
    [name |-> "temporaryRedirect", status |-> 307, builder |-> "redirectFunction"],
    [name |-> "permanentRedirect", status |-> 308, builder |-> "redirectFunction"],
    [name |-> "badRequest", status |-> 400, builder |-> "responseFunction"],
    [name |-> "unauthorized", status |-> 401, builder |-> "responseFunction"],
    [name |-> "forbidden", status |-> 403, builder |-> "responseFunction"],
    [name |-> "notFound", status |-> 404, builder |-> "responseFunction"],
    [name |-> "methodNotAllowed", status |-> 405, builder |-> "responseFunction"],
    [name |-> "notAcceptable", status |-> 406, builder |-> "responseFunction"],
    [name |-> "conflict", status |-> 409, builder |-> "responseFunction"],
    [name |-> "gone", status |-> 410, builder |-> "responseFunction"],
    [name |-> "preconditionFailed", status |-> 412, builder |-> "responseFunction"],
    [name |-> "expectationFailed", status |-> 417, builder |-> "responseFunction"],
    [name |-> "teapot", status |-> 418, builder |-> "responseFunction"],
    [name |-> "preconditionRequired", status |-> 428, builder |-> "responseFunction"],
    [name |-> "tooManyRequests", status |-> 429, builder |-> "responseFunction"],
    [name |-> "serverError", status |-> 500, builder |-> "responseFunction"],
    [name |-> "notImplemented", status |-> 501, builder |-> "responseFunction"],
    [name |-> "serviceUnavailable", status |-> 503, builder |-> "responseFunction"] }

MappingBindings == {b \in Bindings : b.builder = "responseFunction"}
RedirectBindings == {b \in Bindings : b.builder = "redirectFunction"}

\* the helpers the lifecycle of a deferred response is explored with
CoreBindings == {b \in MappingBindings : b.name \in {"ok", "serverError"}}

NoOp == [name |-> "", status |-> 0, builder |-> ""]

NoRun == [pc |-> "idle", values |-> <<>>]

(***************************************************************************)
(* Initial state: no helper has been called.                               *)
(***************************************************************************)
\* before the second call
NoInstance ==
  [op |-> NoOp, data |-> Obj(<<>>), init |-> NoInit, response |-> NoResponse,
   stream |-> <<>>, eager |-> NoRun, runs |-> <<>>]

Init ==
  /\ other = NoInstance
  /\ op = NoOp
  /\ data = Obj(<<>>)
  /\ init = NoInit
  /\ url = ""
  /\ promises = [p \in PromiseIds |-> [state |-> "pending", value |-> Undefined]]
  /\ response = NoResponse
  /\ stream = <<>>
  /\ eager = NoRun
  /\ runs = <<>>

(***************************************************************************)
(* responseFunction(status, data, init), called through binding b.         *)
(* It starts hashSettled(data), whose Object.values(data) is read at once, *)
(* and returns makeResponse({body: stream, status, init}) with then set.   *)
(***************************************************************************)
\* responseFunction that does not start hashSettled(data) for the stream
responseFunction_lazy(b, d, i) ==
  /\ op = NoOp
  /\ op' = b
  /\ data' = d
  /\ init' = i
  /\ response' = [makeResponse(b.status, [kind |-> "stream", text |-> ""], i)
                    EXCEPT !.then = TRUE]
  /\ UNCHANGED <<url, promises, stream, eager, runs, other>>

responseFunction(b, d, i) ==
  /\ op = NoOp
  /\ op' = b
  /\ data' = d
  /\ init' = i
  /\ eager' = [pc |-> "hashSettled", values |-> ObjectValues(d)]
  /\ response' = [makeResponse(b.status, StreamBody, i) EXCEPT !.then = TRUE]
  /\ UNCHANGED <<url, promises, stream, runs, other>>

\* redirectFunction that sends the url as the body and sets no header
redirectFunction_urlAsBody(b, u, i) ==
  /\ op = NoOp
  /\ op' = b
  /\ url' = u
  /\ init' = i
  /\ response' = [status |-> b.status,
                  headers |-> <<>>,
                  body |-> [kind |-> "text", text |-> u],
                  then |-> FALSE]
  /\ UNCHANGED <<data, promises, stream, eager, runs, other>>

\* redirectFunction that takes init and merges its headers with Location
redirectFunction_withInit(b, u, i) ==
  /\ op = NoOp
  /\ op' = b
  /\ url' = u
  /\ init' = i
  /\ response' = [status |-> b.status,
                  headers |-> SetProp(i.headers, "Location", u),
                  body |-> [kind |-> "null", text |-> ""],
                  then |-> FALSE]
  /\ UNCHANGED <<data, promises, stream, eager, runs, other>>

\* redirectFunction(status, url), called through binding b as b(u, i): the
\* function has no parameter for i, which is only recorded here
redirectFunction(b, u, i) ==
  /\ op = NoOp
  /\ op' = b
  /\ url' = u
  /\ init' = i
  /\ response' = [status |-> b.status,
                  headers |-> <<Prop("Location", u)>>,
                  body |-> NullBody,
                  then |-> FALSE]
  /\ UNCHANGED <<data, promises, stream, eager, runs, other>>

\* noContent with init spread after status: { status: 204, ...init }
noContent_initLast(b, i) ==
  /\ op = NoOp
  /\ op' = b
  /\ init' = i
  /\ response' =
       [status |-> IF HasKey(i.props, "status") THEN GetProp(i.props, "status")
                   ELSE b.status,
        headers |-> i.headers,
        body |-> [kind |-> "null", text |-> ""],
        then |-> FALSE]
  /\ UNCHANGED <<data, url, promises, stream, eager, runs, other>>

\* noContent(init): new Response(null, { ...init, status: 204 })
noContent(b, i) ==
  /\ op = NoOp
  /\ op' = b
  /\ init' = i
  /\ response' =
       LET options == SetProp(i.props, "status", 204)
       IN [status |-> GetProp(options, "status"),
           headers |-> i.headers,
           body |-> NullBody,
           then |-> FALSE]
  /\ UNCHANGED <<data, url, promises, stream, eager, runs, other>>

(***************************************************************************)
(* A promise held by the data object fulfills or rejects.                  *)
(***************************************************************************)
Held(p) == \E i \in 1..Len(data.props) : data.props[i].value = Promise(p)

Fulfill(p, v) ==
  /\ Held(p)
  /\ promises[p].state = "pending"
  /\ promises' = [promises EXCEPT ![p] = [state |-> "fulfilled", value |-> v]]
  /\ UNCHANGED <<op, data, init, url, response, stream, eager, runs, other>>

Reject(p, r) ==
  /\ Held(p)
  /\ promises[p].state = "pending"
  /\ promises' = [promises EXCEPT ![p] = [state |-> "rejected", value |-> r]]
  /\ UNCHANGED <<op, data, init, url, response, stream, eager, runs, other>>

\* A promise settles before the helper is called with it, as the
\* Promise.resolve('a') and Promise.reject('b') of the tests do.
EarlyFulfill(p, v) ==
  /\ op = NoOp
  /\ promises[p].state = "pending"
  /\ promises' = [promises EXCEPT ![p] = [state |-> "fulfilled", value |-> v]]
  /\ UNCHANGED <<op, data, init, url, response, stream, eager, runs, other>>

EarlyReject(p, r) ==
  /\ op = NoOp
  /\ promises[p].state = "pending"
  /\ promises' = [promises EXCEPT ![p] = [state |-> "rejected", value |-> r]]
  /\ UNCHANGED <<op, data, init, url, response, stream, eager, runs, other>>

\* d holds every promise that has settled already
HoldsSettled(d) ==
  \A p \in PromiseIds :
    promises[p].state # "pending" =>
      \E i \in 1..Len(d.props) : d.props[i].value = Promise(p)

(***************************************************************************)
(* The caller keeps the data object it passed and changes it after the     *)
(* call, while a value the helper waits for is pending: delete data[k],    *)
(* and data[k] = v.                                                        *)
(***************************************************************************)
WaitsForPending ==
  /\ eager.pc = "hashSettled"
  /\ \E i \in 1..Len(eager.values) : IsPending(eager.values[i])

deleteProperty(k) ==
  /\ op.builder = "responseFunction"
  /\ WaitsForPending
  /\ HasKey(data.props, k)
  /\ data' = Obj(SelectSeq(data.props, LAMBDA prop : prop.key # k))
  /\ UNCHANGED <<op, init, url, promises, response, stream, eager, runs, other>>

setProperty(k, v) ==
  /\ op.builder = "responseFunction"
  /\ WaitsForPending
  /\ data' = Obj(SetProp(data.props, k, v))
  /\ data' # data
  /\ UNCHANGED <<op, init, url, promises, response, stream, eager, runs, other>>

\* a promise the helper or a call of then has read from the data object
Awaited(p) ==
  \/ \E i \in 1..Len(eager.values) : eager.values[i] = Promise(p)
  \/ \E r \in 1..Len(runs), i \in 1..MaxKeys :
       i <= Len(runs[r].values) /\ runs[r].values[i] = Promise(p)

\* such a promise settles, whether or not the data object still holds it
FulfillAny(p, v) ==
  /\ Awaited(p)
  /\ promises[p].state = "pending"
  /\ promises' = [promises EXCEPT ![p] = [state |-> "fulfilled", value |-> v]]
  /\ UNCHANGED <<op, data, init, url, response, stream, eager, runs, other>>

RejectAny(p, r) ==
  /\ Awaited(p)
  /\ promises[p].state = "pending"
  /\ promises' = [promises EXCEPT ![p] = [state |-> "rejected", value |-> r]]
  /\ UNCHANGED <<op, data, init, url, response, stream, eager, runs, other>>

(***************************************************************************)
(* hashSettled(data).then(result => { stream.push(JSON.stringify(result,   *)
(* errorReplacer)); stream.push(null) })                                   *)
(***************************************************************************)
Chunk(s) == [end |-> FALSE, chunk |-> s]
EndOfStream == [end |-> TRUE, chunk |-> ""]

EagerPush ==
  /\ eager.pc = "hashSettled"
  /\ AllSettled(eager.values)
  /\ stream' = stream \o
       <<Chunk(Stringify(hashSettled(data, eager.values), "errorReplacer")),
         EndOfStream>>
  /\ eager' = [eager EXCEPT !.pc = "done"]
  /\ UNCHANGED <<op, data, init, url, promises, response, runs, other>>

(***************************************************************************)
(* then(cb, eb): hash(data).then(..).catch(..).then(cb, eb)                *)
(***************************************************************************)
Run(pc, values, result) == [pc |-> pc, values |-> values, result |-> result]

\* then that starts with hashSettled(data) and never calls hash
thenCall_settleEach(n) ==
  /\ response.then
  /\ Len(runs) < n
  /\ runs' = Append(runs, [pc |-> "hashSettled", values |-> ObjectValues(data),
                           result |-> NoResponse])
  /\ UNCHANGED <<op, data, init, url, promises, response, stream, eager, other>>

\* the call itself: hash(data) reads Object.values(data); at most n calls
thenCall(n) ==
  /\ response.then
  /\ Len(runs) < n
  /\ runs' = Append(runs, Run("hash", ObjectValues(data), NoResponse))
  /\ UNCHANGED <<op, data, init, url, promises, response, stream, eager, other>>

then == thenCall(MaxThen)

\* the resolved response given a then of its own
ThenResolved_thenable(values) ==
  [makeResponse(op.status, TextBody(Stringify(hash(data, values), "none")), init)
     EXCEPT !.then = TRUE]

\* the resolved response encoded with errorReplacer
ThenResolved_withReplacer(values) ==
  makeResponse(op.status,
               TextBody(Stringify(hash(data, values), "errorReplacer")), init)

\* the resolved response built like the rejected one, from hashSettled
ThenResolved_settled(values) ==
  makeResponse(op.status,
               TextBody(Stringify(hashSettled(data, values), "errorReplacer")),
               init)

\* hash fulfilled: makeResponse({body: JSON.stringify(data), status, init})
\* is what cb receives
ThenResolved(values) ==
  makeResponse(op.status, TextBody(Stringify(hash(data, values), "none")), init)

ThenFulfill(r) ==
  /\ runs[r].pc = "hash"
  /\ AllFulfilled(runs[r].values)
  /\ runs' = [runs EXCEPT ![r] =
                Run("resolved", runs[r].values, ThenResolved(runs[r].values))]
  /\ UNCHANGED <<op, data, init, url, promises, response, stream, eager, other>>

\* the catch handler rejecting at once, with the records as they are then
ThenCatch_reject(r) ==
  /\ runs[r].pc = "hash"
  /\ AnyRejected(runs[r].values)
  /\ runs' = [runs EXCEPT ![r] =
                [pc |-> "rejected", values |-> ObjectValues(data),
                 result |-> makeResponse(500,
                   TextBody(Stringify(hashSettled(data, ObjectValues(data)),
                                      "errorReplacer")), init)]]
  /\ UNCHANGED <<op, data, init, url, promises, response, stream, eager, other>>

\* hash rejected: the catch handler starts hashSettled(data)
ThenCatch(r) ==
  /\ runs[r].pc = "hash"
  /\ AnyRejected(runs[r].values)
  /\ runs' = [runs EXCEPT ![r] = Run("hashSettled", ObjectValues(data), NoResponse)]
  /\ UNCHANGED <<op, data, init, url, promises, response, stream, eager, other>>

\* the rejected response built with the helper's status instead of 500
ThenRejected_keepStatus(values) ==
  makeResponse(op.status,
               TextBody(Stringify(hashSettled(data, values), "errorReplacer")),
               init)

\* the rejection also sets the status of the returned object to 500
ThenReject_updateStatus(r) ==
  /\ runs[r].pc = "hashSettled"
  /\ \A i \in 1..Len(runs[r].values) : ~IsPending(runs[r].values[i])
  /\ runs' = [runs EXCEPT ![r] =
                [pc |-> "rejected", values |-> runs[r].values,
                 result |-> makeResponse(500,
                   TextBody(Stringify(hashSettled(data, runs[r].values),
                                      "errorReplacer")), init)]]
  /\ response' = [response EXCEPT !.status = 500]
  /\ UNCHANGED <<op, data, init, url, promises, stream, eager, other>>

\* the catch handler passing on the reason hash rejected with
ThenRejected_reason(values) ==
  Outcome(values[CHOOSE i \in 1..Len(values) : IsRejected(values[i])])

\* the rejected response encoded without errorReplacer
ThenRejected_noReplacer(values) ==
  makeResponse(500, TextBody(Stringify(hashSettled(data, values), "none")), init)

\* hashSettled fulfilled: Promise.reject(makeResponse({body:
\* JSON.stringify(result, errorReplacer), status: 500, init})) is what eb receives
ThenRejected(values) ==
  makeResponse(500,
               TextBody(Stringify(hashSettled(data, values), "errorReplacer")),
               init)

\* the catch handler returning the 500 response instead of rejecting with it
ThenReject_returns(r) ==
  /\ runs[r].pc = "hashSettled"
  /\ \A i \in 1..Len(runs[r].values) : ~IsPending(runs[r].values[i])
  /\ runs' = [runs EXCEPT ![r] =
                [pc |-> "resolved", values |-> runs[r].values,
                 result |-> makeResponse(500,
                   TextBody(Stringify(hashSettled(data, runs[r].values),
                                      "errorReplacer")), init)]]
  /\ UNCHANGED <<op, data, init, url, promises, response, stream, eager, other>>

\* the rejection abandoning the run that fills the stream
ThenReject_cancel(r) ==
  /\ runs[r].pc = "hashSettled"
  /\ \A i \in 1..Len(runs[r].values) : ~IsPending(runs[r].values[i])
  /\ runs' = [runs EXCEPT ![r] =
                [pc |-> "rejected", values |-> runs[r].values,
                 result |-> makeResponse(500,
                   TextBody(Stringify(hashSettled(data, runs[r].values),
                                      "errorReplacer")), init)]]
  /\ eager' = IF eager.pc = "hashSettled" THEN [eager EXCEPT !.pc = "idle"]
              ELSE eager
  /\ UNCHANGED <<op, data, init, url, promises, response, stream, other>>

\* the rejection also pushing its body and the end marker to the stream
ThenReject_push(r) ==
  /\ runs[r].pc = "hashSettled"
  /\ \A i \in 1..Len(runs[r].values) : ~IsPending(runs[r].values[i])
  /\ runs' = [runs EXCEPT ![r] =
                [pc |-> "rejected", values |-> runs[r].values,
                 result |-> makeResponse(500,
                   TextBody(Stringify(hashSettled(data, runs[r].values),
                                      "errorReplacer")), init)]]
  /\ stream' = stream \o
       <<[end |-> FALSE,
          chunk |-> Stringify(hashSettled(data, runs[r].values), "errorReplacer")],
         [end |-> TRUE, chunk |-> ""]>>
  /\ UNCHANGED <<op, data, init, url, promises, response, eager, other>>

\* the rejection delivered as soon as one value has settled
ThenReject_early(r) ==
  /\ runs[r].pc = "hashSettled"
  /\ \E i \in 1..Len(runs[r].values) : ~IsPending(runs[r].values[i])
  /\ runs' = [runs EXCEPT ![r] =
                [pc |-> "rejected", values |-> runs[r].values,
                 result |-> makeResponse(500,
                   TextBody(Stringify(hashSettled(data, runs[r].values),
                                      "errorReplacer")), init)]]
  /\ UNCHANGED <<op, data, init, url, promises, response, stream, eager, other>>

ThenReject(r) ==
  /\ runs[r].pc = "hashSettled"
  /\ AllSettled(runs[r].values)
  /\ runs' = [runs EXCEPT ![r] =
                Run("rejected", runs[r].values, ThenRejected(runs[r].values))]
  /\ UNCHANGED <<op, data, init, url, promises, response, stream, eager, other>>

(***************************************************************************)
(* A second call, responseFunction(status, d, i) through binding b, while  *)
(* the first response is in use.  The call makes its own stream, response  *)
(* and then; the module keeps nothing between calls.  The two data objects *)
(* may hold the same promise.                                              *)
(***************************************************************************)
responseFunction2(b, d, i) ==
  /\ op # NoOp
  /\ other.op = NoOp
  /\ other' = [op |-> b, data |-> d, init |-> i,
               response |-> [makeResponse(b.status, StreamBody, i)
                               EXCEPT !.then = TRUE],
               stream |-> <<>>,
               eager |-> [pc |-> "hashSettled", values |-> ObjectValues(d)],
               runs |-> <<>>]
  /\ UNCHANGED <<op, data, init, url, promises, response, stream, eager, runs>>

Held2(p) ==
  \E i \in 1..Len(other.data.props) : other.data.props[i].value = Promise(p)

Fulfill2(p, v) ==
  /\ Held2(p)
  /\ promises[p].state = "pending"
  /\ promises' = [promises EXCEPT ![p] = [state |-> "fulfilled", value |-> v]]
  /\ UNCHANGED <<op, data, init, url, response, stream, eager, runs, other>>

Reject2(p, r) ==
  /\ Held2(p)
  /\ promises[p].state = "pending"
  /\ promises' = [promises EXCEPT ![p] = [state |-> "rejected", value |-> r]]
  /\ UNCHANGED <<op, data, init, url, response, stream, eager, runs, other>>

\* a stream kept by the module: the second call pushes on the first one's
EagerPush2_shared ==
  /\ other.eager.pc = "hashSettled"
  /\ AllSettled(other.eager.values)
  /\ stream' = stream \o
       <<Chunk(Stringify(hashSettled(other.data, other.eager.values),
                         "errorReplacer")),
         EndOfStream>>
  /\ other' = [other EXCEPT !.eager.pc = "done"]
  /\ UNCHANGED <<op, data, init, url, promises, response, eager, runs>>

EagerPush2 ==
  /\ other.eager.pc = "hashSettled"
  /\ AllSettled(other.eager.values)
  /\ other' = [other EXCEPT
       !.stream = other.stream \o
         <<Chunk(Stringify(hashSettled(other.data, other.eager.values),
                           "errorReplacer")),
           EndOfStream>>,
       !.eager.pc = "done"]
  /\ UNCHANGED <<op, data, init, url, promises, response, stream, eager, runs>>

\* then of the second response, called once
then2 ==
  /\ other.response.then
  /\ other.runs = <<>>
  /\ other' = [other EXCEPT
       !.runs = <<Run("hash", ObjectValues(other.data), NoResponse)>>]
  /\ UNCHANGED <<op, data, init, url, promises, response, stream, eager, runs>>

ThenFulfill2(r) ==
  /\ other.runs[r].pc = "hash"
  /\ AllFulfilled(other.runs[r].values)
  /\ other' = [other EXCEPT !.runs[r] =
       Run("resolved", other.runs[r].values,
           makeResponse(other.op.status,
                        TextBody(Stringify(hash(other.data, other.runs[r].values),
                                           "none")),
                        other.init))]
  /\ UNCHANGED <<op, data, init, url, promises, response, stream, eager, runs>>

ThenCatch2(r) ==
  /\ other.runs[r].pc = "hash"
  /\ AnyRejected(other.runs[r].values)
  /\ other' = [other EXCEPT !.runs[r] =
       Run("hashSettled", ObjectValues(other.data), NoResponse)]
  /\ UNCHANGED <<op, data, init, url, promises, response, stream, eager, runs>>

ThenReject2(r) ==
  /\ other.runs[r].pc = "hashSettled"
  /\ AllSettled(other.runs[r].values)
  /\ other' = [other EXCEPT !.runs[r] =
       Run("rejected", other.runs[r].values,
           makeResponse(500,
                        TextBody(Stringify(
                          hashSettled(other.data, other.runs[r].values),
                          "errorReplacer")),
                        other.init))]
  /\ UNCHANGED <<op, data, init, url, promises, response, stream, eager, runs>>

\* Promise.allSettled(Object.values(data)) of the run started by the helper
\* has subscribed to promise p, fulfillment and rejection alike
Subscribed(p) ==
  /\ eager.pc \in {"hashSettled", "done"}
  /\ \E i \in 1..Len(eager.values) : eager.values[i] = Promise(p)

(***************************************************************************)
(* The calls of hash and hashSettled made so far: a call of then is inside *)
(* hash first, and inside hashSettled from its catch handler on.           *)
(***************************************************************************)
hashCalls == Len(runs)

hashSettledCalls ==
  (IF eager.pc \in {"hashSettled", "done"} THEN 1 ELSE 0)
    + Cardinality({r \in 1..Len(runs) : runs[r].pc \in {"hashSettled", "rejected"}})

(***************************************************************************)
(* Specifications.                                                         *)
(***************************************************************************)
Settle ==
  \E p \in PromiseIds, v \in Values : Fulfill(p, v) \/ Reject(p, v)

\* the callbacks the event loop runs
Callbacks ==
  \/ EagerPush
  \/ \E r \in 1..Len(runs) : ThenFulfill(r)
  \/ \E r \in 1..Len(runs) : ThenCatch(r)
  \/ \E r \in 1..Len(runs) : ThenReject(r)

Progress ==
  \/ then
  \/ Callbacks

\* the lifecycle of a deferred response, with data objects of up to MaxKeys
Next ==
  \/ \E b \in CoreBindings, d \in DataUpTo(MaxKeys), i \in Inits :
       responseFunction(b, d, i)
  \/ Settle
  \/ Progress

Spec == Init /\ [][Next]_vars

\* every exported helper, with data objects of up to BindKeys
NextBindings ==
  \/ \E b \in MappingBindings, d \in DataUpTo(BindKeys), i \in Inits :
       responseFunction(b, d, i)
  \/ \E b \in RedirectBindings, u \in Urls, i \in Inits :
       redirectFunction(b, u, i)
  \/ \E b \in Bindings, i \in Inits : b.builder = "noContent" /\ noContent(b, i)
  \/ Settle
  \/ Progress

SpecBindings == Init /\ [][NextBindings]_vars

\* the lifecycle of one response returned by ok(data), with the scheduling
\* the event loop guarantees (a callback whose promise has settled runs) and
\* every held promise settling
NextOk ==
  \/ \E b \in MappingBindings, d \in DataUpTo(MaxKeys) :
       b.name = "ok" /\ responseFunction(b, d, NoInit)
  \/ Settle
  \/ Progress

FairSpec ==
  /\ Init
  /\ [][NextOk]_vars
  /\ WF_vars(EagerPush)
  /\ \A p \in PromiseIds :
       WF_vars(\E v \in Values : Fulfill(p, v) \/ Reject(p, v))

\* the same, with the handlers of then scheduled as well: a handler whose
\* promise has settled runs
FairThen ==
  /\ Init
  /\ [][NextOk]_vars
  /\ WF_vars(EagerPush)
  /\ WF_vars(\E r \in 1..Len(runs) : ThenFulfill(r))
  /\ WF_vars(\E r \in 1..Len(runs) : ThenCatch(r))
  /\ WF_vars(\E r \in 1..Len(runs) : ThenReject(r))
  /\ \A p \in PromiseIds :
       WF_vars(\E v \in Values : Fulfill(p, v) \/ Reject(p, v))

\* one response returned by ok(data), whose promises may have settled before
\* the call, and whose then is called up to MaxAwaits times
okCall ==
  \E b \in MappingBindings, d \in DataUpTo(MaxKeys) :
    b.name = "ok" /\ HoldsSettled(d) /\ responseFunction(b, d, NoInit)

NextAwait ==
  \/ \E p \in PromiseIds, v \in Values : EarlyFulfill(p, v) \/ EarlyReject(p, v)
  \/ okCall
  \/ Settle
  \/ thenCall(MaxAwaits)
  \/ Callbacks

SpecAwait == Init /\ [][NextAwait]_vars

\* one response returned by ok(data) whose caller changes data afterwards and
\* never calls then
MutationKeys == {Keys[i] : i \in 1..(BindKeys + 1)}
MutationValues == {Str("new"), True}

NextMutate ==
  \/ \E b \in MappingBindings, d \in DataUpTo(BindKeys) :
       b.name = "ok" /\ responseFunction(b, d, NoInit)
  \/ \E p \in PromiseIds, v \in Values : FulfillAny(p, v) \/ RejectAny(p, v)
  \/ \E k \in MutationKeys : deleteProperty(k)
  \/ \E k \in MutationKeys, v \in MutationValues : setProperty(k, v)
  \/ EagerPush

SpecMutate == Init /\ [][NextMutate]_vars

\* two responses returned by ok, in use at the same time; the second data
\* object holds the first promise, which the first one may hold too, or the
\* last one, or no promise
OtherData ==
  { Obj(<<>>), Obj(<<Prop("a", Str("a"))>>),
    Obj(<<Prop("a", Promise(1))>>), Obj(<<Prop("a", Promise(MaxKeys))>>) }

NextTwo ==
  \/ \E b \in MappingBindings, d \in DataUpTo(BindKeys) :
       b.name = "ok" /\ responseFunction(b, d, NoInit)
  \/ \E b \in MappingBindings, d \in OtherData :
       b.name = "ok" /\ responseFunction2(b, d, NoInit)
  \/ Settle
  \/ \E p \in PromiseIds, v \in Values : Fulfill2(p, v) \/ Reject2(p, v)
  \/ Progress
  \/ EagerPush2
  \/ then2
  \/ \E r \in 1..Len(other.runs) : ThenFulfill2(r)
  \/ \E r \in 1..Len(other.runs) : ThenCatch2(r)
  \/ \E r \in 1..Len(other.runs) : ThenReject2(r)

SpecTwo == Init /\ [][NextTwo]_vars

\* one helper of each kind, with every form of init argument
InitBindings == {b \in Bindings : b.name \in {"ok", "movedPermanently", "noContent"}}

NextInit ==
  \/ \E b \in InitBindings, d \in DataUpTo(BindKeys), i \in Inits \cup HeadersInits :
       b.builder = "responseFunction" /\ responseFunction(b, d, i)
  \/ \E b \in InitBindings, u \in Urls, i \in Inits \cup HeadersInits :
       b.builder = "redirectFunction" /\ redirectFunction(b, u, i)
  \/ \E b \in InitBindings, i \in Inits \cup HeadersInits :
       b.builder = "noContent" /\ noContent(b, i)
  \/ Settle
  \/ Progress

SpecInit == Init /\ [][NextInit]_vars

(***************************************************************************)
(* What the properties below compare the model with.                       *)
(***************************************************************************)
Deferred == op.builder = "responseFunction"

Size == Len(data.props)
KeyAt(i) == data.props[i].key
ValueAt(i) == data.props[i].value

HoldsPromise == \E i \in 1..Size : ValueAt(i).t = "promise"

RECURSIVE Join(_)
Join(items) ==
  IF items = <<>> THEN ""
  ELSE IF Len(items) = 1 THEN items[1]
  ELSE items[1] \o "," \o Join(Tail(items))

Braces(items) == "{" \o Join(items) \o "}"

\* the data object with every promise replaced by the value it fulfilled with
FulfilledData == Obj([i \in 1..Size |-> Prop(KeyAt(i), Outcome(ValueAt(i)))])

\* "key":{"status":"fulfilled","value":..} or "key":{"status":"rejected","reason":..}
RecordText(i, text) ==
  Quote(KeyAt(i)) \o ":" \o
    (IF IsRejected(ValueAt(i))
     THEN "{\"status\":\"rejected\",\"reason\":" \o text \o "}"
     ELSE "{\"status\":\"fulfilled\",\"value\":" \o text \o "}")

\* one settlement record per key of the data object
SettledText ==
  Braces([i \in 1..Size |->
            RecordText(i, Stringify(Outcome(ValueAt(i)), "errorReplacer"))])

Delivered(text) == stream = <<Chunk(text), EndOfStream>>

StatusOf ==
  [n \in {b.name : b \in Bindings} |->
     CASE n = "ok" -> 200 [] n = "created" -> 201 [] n = "noContent" -> 204
       [] n = "resetContent" -> 205 [] n = "partialContent" -> 206
       [] n = "movedPermanently" -> 301 [] n = "found" -> 302
       [] n = "seeOther" -> 303 [] n = "notModified" -> 304
       [] n = "temporaryRedirect" -> 307 [] n = "permanentRedirect" -> 308
       [] n = "badRequest" -> 400 [] n = "unauthorized" -> 401
       [] n = "forbidden" -> 403 [] n = "notFound" -> 404
       [] n = "methodNotAllowed" -> 405 [] n = "notAcceptable" -> 406
       [] n = "conflict" -> 409 [] n = "gone" -> 410
       [] n = "preconditionFailed" -> 412 [] n = "expectationFailed" -> 417
       [] n = "teapot" -> 418 [] n = "preconditionRequired" -> 428
       [] n = "tooManyRequests" -> 429 [] n = "serverError" -> 500
       [] n = "notImplemented" -> 501 [] n = "serviceUnavailable" -> 503]

(***************************************************************************)
(* C1: when every value of the data object has fulfilled, no call of then  *)
(* rejects: each is resolved or about to resolve, and it resolves with a   *)
(* response of the helper's status whose body is the JSON text of the data *)
(* object with each promise replaced by its fulfilled value.               *)
(***************************************************************************)
C1_AwaitResolves ==
  (Deferred /\ AllFulfilled(ObjectValues(data))) =>
    \A r \in 1..Len(runs) :
      /\ runs[r].pc \in {"hash", "resolved"}
      /\ runs[r].pc = "hash" => ENABLED ThenFulfill(r)
      /\ runs[r].pc = "resolved" =>
           /\ runs[r].result.status = op.status
           /\ runs[r].result.body = TextBody(Stringify(FulfilledData, "none"))

C1_Witness ==
  /\ Deferred /\ Size = 2
  /\ \E i \in 1..Size : ValueAt(i).t = "promise" /\ Outcome(ValueAt(i)) = Str("a")
  /\ \E r \in 1..Len(runs) : runs[r].pc = "resolved"

(***************************************************************************)
(* C2: when some value of the data object has rejected, no call of then    *)
(* resolves: it is caught, and once every value has settled it rejects     *)
(* with a response of status 500 whose body holds one settlement record    *)
(* per key, whatever the helper's own status.                              *)
(***************************************************************************)
C2_AwaitRejects ==
  (Deferred /\ AnyRejected(ObjectValues(data))) =>
    \A r \in 1..Len(runs) :
      /\ runs[r].pc \in {"hash", "hashSettled", "rejected"}
      /\ runs[r].pc = "hash" => ENABLED ThenCatch(r)
      /\ (runs[r].pc = "hashSettled" /\ AllSettled(ObjectValues(data))) =>
           ENABLED ThenReject(r)
      /\ runs[r].pc = "rejected" =>
           /\ runs[r].result.status = 500
           /\ runs[r].result.body = TextBody(SettledText)

C2_Witness ==
  /\ Deferred /\ Size = 2 /\ op.status # 500
  /\ \E i \in 1..Size : IsRejected(ValueAt(i))
  /\ \E i \in 1..Size : ValueAt(i).t = "promise" /\ IsFulfilled(ValueAt(i))
  /\ \E r \in 1..Len(runs) : runs[r].pc = "rejected"

(***************************************************************************)
(* C3: the status of the returned object is the helper's status from the   *)
(* call onwards, also after a value rejected and after a call of then      *)
(* rejected with a 500 response; no step changes the returned object.      *)
(***************************************************************************)
C3_StatusFixed ==
  /\ [](Deferred => response.status = op.status)
  /\ [][op # NoOp => response' = response]_vars

C3_Witness ==
  /\ Deferred /\ op.status = 200 /\ response.status = 200
  /\ \E r \in 1..Len(runs) :
       runs[r].pc = "rejected" /\ runs[r].result.status = 500

(***************************************************************************)
(* C4: for a returned object whose then is never called, once every value  *)
(* has settled the body is delivered or about to be, and what is delivered *)
(* is one settlement record per key, fulfilled keys included.              *)
(***************************************************************************)
C4_ProvisionalBody ==
  (Deferred /\ runs = <<>> /\ AllSettled(ObjectValues(data))) =>
    /\ eager.pc = "hashSettled" => ENABLED EagerPush
    /\ eager.pc = "done" => Delivered(SettledText)

C4_Witness ==
  /\ Deferred /\ runs = <<>> /\ eager.pc = "done" /\ Size = 2 /\ HoldsPromise
  /\ AllFulfilled(ObjectValues(data))

(***************************************************************************)
(* C5 as written: for a data object that holds no promise, the body the    *)
(* helper produces is the JSON text of the data object itself.             *)
(***************************************************************************)
C5_Original ==
  (Deferred /\ ~HoldsPromise /\ eager.pc = "done") =>
    /\ response.status = op.status
    /\ Delivered(Stringify(data, "none"))

(***************************************************************************)
(* C5: for a data object that holds no promise, a call of then resolves    *)
(* with a response of the helper's status whose body is the JSON text of   *)
(* the data object itself; the body of the returned object wraps every     *)
(* value in a fulfilled settlement record.                                 *)
(***************************************************************************)
C5_PlainData ==
  (Deferred /\ ~HoldsPromise) =>
    /\ response.status = op.status
    /\ \A r \in 1..Len(runs) :
         /\ runs[r].pc \in {"hash", "resolved"}
         /\ runs[r].pc = "resolved" =>
              /\ runs[r].result.status = op.status
              /\ runs[r].result.body = TextBody(Stringify(data, "none"))
    /\ eager.pc = "done" =>
         Delivered(Braces([i \in 1..Size |->
           Quote(KeyAt(i)) \o ":{\"status\":\"fulfilled\",\"value\":"
             \o Stringify(ValueAt(i), "errorReplacer") \o "}"]))

C5_Witness ==
  /\ Deferred /\ ~HoldsPromise /\ Size = 2 /\ eager.pc = "done"
  /\ \E r \in 1..Len(runs) : runs[r].pc = "resolved"

(***************************************************************************)
(* C6: once a helper has returned a deferred response, if every held       *)
(* promise settles then the body is eventually delivered, one JSON chunk   *)
(* and the end of the stream, whether or not then is ever called and also  *)
(* when values reject.                                                     *)
(***************************************************************************)
C6_BodyMaterializes ==
  Deferred ~> (Len(stream) = 2 /\ ~stream[1].end /\ stream[2].end)

C6_Witness ==
  /\ Deferred /\ runs = <<>> /\ Len(stream) = 2
  /\ \E i \in 1..Size : IsRejected(ValueAt(i))

(***************************************************************************)
(* C7: bodies of settlement records, compared with the text built from the *)
(* rule for rejection reasons.                                             *)
(***************************************************************************)
ErrorText(e) ==
  "{\"message\":" \o Quote(e.message) \o ",\"name\":" \o Quote(e.name)
    \o ",\"isError\":true}"

RECURSIVE ExpandErrors(_)
\* v with every Error in it replaced by its {message, name, isError} object
ExpandErrors(v) ==
  CASE v.t = "error" ->
         Obj(<<Prop("message", Str(v.message)), Prop("name", Str(v.name)),
               Prop("isError", True)>>)
    [] v.t = "object" ->
         Obj([i \in 1..Len(v.props) |->
                Prop(v.props[i].key, ExpandErrors(v.props[i].value))])
    [] OTHER -> v

ReasonAsWritten(r) ==
  IF r.t = "error" THEN ErrorText(r) ELSE Stringify(r, "none")

ReasonAmended(r) ==
  IF r.t = "error" THEN ErrorText(r) ELSE Stringify(ExpandErrors(r), "none")

RecordsAsWritten ==
  Braces([i \in 1..Size |->
    RecordText(i, IF IsRejected(ValueAt(i))
                  THEN ReasonAsWritten(Outcome(ValueAt(i)))
                  ELSE Stringify(Outcome(ValueAt(i)), "errorReplacer"))])

RecordsAmended ==
  Braces([i \in 1..Size |->
    RecordText(i, IF IsRejected(ValueAt(i))
                  THEN ReasonAmended(Outcome(ValueAt(i)))
                  ELSE Stringify(Outcome(ValueAt(i)), "errorReplacer"))])

SettledBodiesAre(text) ==
  /\ eager.pc = "done" => Delivered(text)
  /\ \A r \in 1..Len(runs) :
       runs[r].pc = "rejected" => runs[r].result.body = TextBody(text)

(***************************************************************************)
(* C7 as written: in the provisional body and in the body of a rejected    *)
(* then, a reason that is an Error is encoded as its name, message and     *)
(* isError: true, and every other reason as JSON encodes it by itself.     *)
(***************************************************************************)
C7_Original == Deferred => SettledBodiesAre(RecordsAsWritten)

(***************************************************************************)
(* C7: in the provisional body and in the body of a rejected then, a       *)
(* reason that is an Error is encoded as its name, message and isError:    *)
(* true, and every other reason as JSON encodes it once the Errors nested  *)
(* inside it are expanded the same way.                                    *)
(***************************************************************************)
C7_ReasonEncoding == Deferred => SettledBodiesAre(RecordsAmended)

C7_Witness ==
  /\ Deferred /\ eager.pc = "done" /\ Size = 2
  /\ \E i \in 1..Size : IsRejected(ValueAt(i)) /\ Outcome(ValueAt(i)).t = "error"
  /\ \E i \in 1..Size : IsRejected(ValueAt(i)) /\ Outcome(ValueAt(i)).t = "object"
  /\ \E r \in 1..Len(runs) : runs[r].pc = "rejected"

(***************************************************************************)
(* C8: from the call onwards, before any value settles included, the       *)
(* object a data-object helper returned has the status listed for the      *)
(* helper, whatever the data object and the init argument, a status        *)
(* property of init included; likewise 204 for noContent.                  *)
(***************************************************************************)
C8_BindingStatus ==
  (op.builder \in {"responseFunction", "noContent"}) =>
    /\ response.status = StatusOf[op.name]
    /\ op.builder = "responseFunction" => response.then

C8_Witness ==
  /\ op.name = "resetContent" /\ response.status = 205
  /\ HasKey(init.props, "status")
  /\ HoldsPromise /\ \A p \in PromiseIds : promises[p].state = "pending"

(***************************************************************************)
(* C9: a redirect helper returns a response without a body, whose Location *)
(* header is the url it was given and whose status is the one listed for   *)
(* the helper; it starts no settlement and has no then.                    *)
(***************************************************************************)
C9_Redirect ==
  (op.builder = "redirectFunction") =>
    /\ response.body = NullBody
    /\ HasKey(response.headers, "Location")
    /\ GetProp(response.headers, "Location") = url
    /\ response.status = StatusOf[op.name]
    /\ ~response.then
    /\ eager = NoRun /\ stream = <<>> /\ runs = <<>>
    /\ ~ENABLED then

C9_Witness ==
  /\ op.name = "movedPermanently" /\ url = "https://www.example.com"
  /\ response.status = 301

(***************************************************************************)
(* C10: noContent returns a response of status 204 with a null body; it    *)
(* takes no data object and starts no settlement.                          *)
(***************************************************************************)
C10_NoContent ==
  (op.builder = "noContent") =>
    /\ response.status = 204
    /\ response.body = NullBody
    /\ data = Obj(<<>>)
    /\ ~response.then
    /\ eager = NoRun /\ stream = <<>> /\ runs = <<>>

C10_Witness ==
  /\ op.name = "noContent" /\ HasKey(init.props, "status")
  /\ response.body = NullBody

(***************************************************************************)
(* C11: hashSettled never fails: once every value has settled the call     *)
(* completes, also when values rejected, and its result has the keys of    *)
(* the data object, each with one record that carries exactly one tag:     *)
(* fulfilled with the value, or rejected with the reason, as that key's    *)
(* value turned out.                                                       *)
(***************************************************************************)
C11_SettledRecords ==
  (Deferred /\ \A i \in 1..Size : StateOf(ValueAt(i)) # "pending") =>
    LET result == hashSettled(data, ObjectValues(data)) IN
      /\ eager.pc = "hashSettled" => ENABLED EagerPush
      /\ \A r \in 1..Len(runs) :
           runs[r].pc = "hashSettled" => ENABLED ThenReject(r)
      /\ ObjectKeys(result) = ObjectKeys(data)
      /\ \A i \in 1..Size :
           /\ result.props[i].key = KeyAt(i)
           /\ StateOf(ValueAt(i)) = "fulfilled" =>
                result.props[i].value =
                  Obj(<<Prop("status", Str("fulfilled")),
                        Prop("value", Outcome(ValueAt(i)))>>)
           /\ StateOf(ValueAt(i)) = "rejected" =>
                result.props[i].value =
                  Obj(<<Prop("status", Str("rejected")),
                        Prop("reason", Outcome(ValueAt(i)))>>)

C11_Witness ==
  /\ Deferred /\ Size = 2 /\ eager.pc = "done"
  /\ \E i \in 1..Size : StateOf(ValueAt(i)) = "rejected"
  /\ \E i \in 1..Size : ValueAt(i).t = "promise" /\ StateOf(ValueAt(i)) = "fulfilled"
  /\ \E r \in 1..Len(runs) : runs[r].pc = "hashSettled"

(***************************************************************************)
(* C12: hash is all or nothing: a call of then whose values include a      *)
(* rejected one fails and cannot resolve; while a value is pending and     *)
(* none rejected it does neither; when every value has fulfilled it        *)
(* resolves, and the result has the keys of the data object, each with the *)
(* value its promise fulfilled with, a plain value passing through         *)
(* unchanged.                                                              *)
(***************************************************************************)
C12_AllOrNothing ==
  Deferred =>
    \A r \in 1..Len(runs) :
      LET values == runs[r].values
          rejected == \E i \in 1..Len(values) : StateOf(values[i]) = "rejected"
          pending == \E i \in 1..Len(values) : StateOf(values[i]) = "pending"
      IN
        /\ runs[r].pc = "resolved" => ~rejected /\ ~pending
        /\ runs[r].pc \in {"hashSettled", "rejected"} => rejected
        /\ runs[r].pc = "hash" =>
             /\ rejected => ENABLED ThenCatch(r) /\ ~ENABLED ThenFulfill(r)
             /\ (pending /\ ~rejected) =>
                  ~ENABLED ThenCatch(r) /\ ~ENABLED ThenFulfill(r)
             /\ (~pending /\ ~rejected) =>
                  /\ ENABLED ThenFulfill(r) /\ ~ENABLED ThenCatch(r)
                  /\ ObjectKeys(hash(data, values)) = ObjectKeys(data)
                  /\ \A i \in 1..Size :
                       hash(data, values).props[i].value =
                         IF ValueAt(i).t = "promise"
                         THEN promises[ValueAt(i).id].value
                         ELSE ValueAt(i)

C12_Witness ==
  /\ Deferred /\ Size = 2
  /\ \E i \in 1..Size : ValueAt(i).t = "promise" /\ StateOf(ValueAt(i)) = "fulfilled"
  /\ \E i \in 1..Size : ValueAt(i).t # "promise"
  /\ \E r \in 1..Len(runs) : runs[r].pc = "hash"

\* the response carries every header entry of the init argument
CarriesInitHeaders(resp) ==
  \A j \in 1..Len(init.headers) :
    /\ HasKey(resp.headers, init.headers[j].key)
    /\ GetProp(resp.headers, init.headers[j].key) = init.headers[j].value

\* the returned object and the responses the calls of then have produced
Produced ==
  {response} \cup
    {runs[r].result : r \in {q \in 1..Len(runs) : runs[q].pc \in {"resolved", "rejected"}}}

(***************************************************************************)
(* C13: every response of a mapping helper, the returned object and what a *)
(* call of then resolves or rejects with, has the Content-Type             *)
(* 'application/json; charset=utf-8' and every header entry of the init    *)
(* argument.                                                               *)
(***************************************************************************)
C13_Headers ==
  Deferred =>
    \A resp \in Produced :
      /\ HasKey(resp.headers, "Content-Type")
      /\ GetProp(resp.headers, "Content-Type") = "application/json; charset=utf-8"
      /\ CarriesInitHeaders(resp)

(***************************************************************************)
(* C14 as written: whatever the helper, redirects and noContent included,  *)
(* the returned response carries every header entry of the init argument.  *)
(***************************************************************************)
C14_Original == op # NoOp => CarriesInitHeaders(response)

(***************************************************************************)
(* C14: noContent returns a response with every header entry of its init   *)
(* argument; a redirect helper takes the url only, and its response has    *)
(* the Location header and nothing of an init argument; a mapping helper   *)
(* returns a response with the entries of a plain headers object and       *)
(* with none of the entries of a Headers instance.                         *)
(***************************************************************************)
C14_InitHeaders ==
  /\ op.builder = "noContent" => CarriesInitHeaders(response)
  /\ op.builder = "redirectFunction" =>
       response.headers = <<Prop("Location", url)>>
  /\ (op.builder = "responseFunction" /\ init.headersKind = "record") =>
       CarriesInitHeaders(response)
  /\ (op.builder = "responseFunction" /\ init.headersKind = "Headers") =>
       response.headers = <<Prop("Content-Type", "application/json; charset=utf-8")>>

C14_Witness ==
  /\ op.builder = "redirectFunction" /\ init.given /\ init.headers # <<>>
  /\ response.headers = <<Prop("Location", url)>>

\* the body of a resolved then and the provisional body, written from one
\* JSON text per key
ResolvedBodyOf(texts) == Braces([i \in 1..Size |-> Member(KeyAt(i), texts[i])])
ProvisionalBodyOf(texts) == Braces([i \in 1..Size |-> RecordText(i, texts[i])])

(***************************************************************************)
(* C15 as written: once the body is delivered, a rejected then has exactly *)
(* the delivered text as its body, and a resolved then has under every key *)
(* the text that the delivered body has as the value of that key's         *)
(* fulfilled record.                                                       *)
(***************************************************************************)
C15_Original ==
  (Deferred /\ eager.pc = "done") =>
    \A r \in 1..Len(runs) :
      /\ runs[r].pc = "rejected" => runs[r].result.body = TextBody(stream[1].chunk)
      /\ runs[r].pc = "resolved" =>
           LET texts == [i \in 1..Size |-> Stringify(Outcome(ValueAt(i)), "none")]
           IN /\ runs[r].result.body = TextBody(ResolvedBodyOf(texts))
              /\ Delivered(ProvisionalBodyOf(texts))

(***************************************************************************)
(* C15: once the body is delivered, a rejected then has exactly the        *)
(* delivered text as its body; a resolved then has under every key the     *)
(* JSON text of the fulfilled value, and the delivered body has as the     *)
(* value of that key's fulfilled record the JSON text of the same value    *)
(* with every Error in it expanded to its message, name and isError.       *)
(***************************************************************************)
C15_BodiesAgree ==
  (Deferred /\ eager.pc = "done") =>
    \A r \in 1..Len(runs) :
      /\ runs[r].pc = "rejected" => runs[r].result.body = TextBody(stream[1].chunk)
      /\ runs[r].pc = "resolved" =>
           /\ runs[r].result.body =
                TextBody(ResolvedBodyOf(
                  [i \in 1..Size |-> Stringify(Outcome(ValueAt(i)), "none")]))
           /\ Delivered(ProvisionalBodyOf(
                [i \in 1..Size |->
                   Stringify(ExpandErrors(Outcome(ValueAt(i))), "none")]))

C15_Witness ==
  /\ Deferred /\ eager.pc = "done" /\ Size = 2
  /\ \E i \in 1..Size : ValueAt(i).t = "promise" /\ Outcome(ValueAt(i)).t = "error"
  /\ \E r \in 1..Len(runs) : runs[r].pc = "resolved"

\* the calls of then that have called cb or eb
Finished == {r \in 1..Len(runs) : runs[r].pc \in {"resolved", "rejected"}}

(***************************************************************************)
(* C16: a call of then produces a response of its own, which is not the    *)
(* returned object and has no then, and the step leaves the returned       *)
(* object and the body stream as they are; all calls of then on one        *)
(* object, whenever they are made, end the same way: all resolved or all   *)
(* rejected, with equal status, headers and body.                          *)
(***************************************************************************)
C16_AwaitsAgree ==
  /\ [](Deferred =>
         /\ \A r \in Finished : runs[r].result # response /\ ~runs[r].result.then
         /\ \A r1, r2 \in Finished :
              runs[r1].pc = runs[r2].pc /\ runs[r1].result = runs[r2].result)
  /\ [][runs' # runs => (response' = response /\ stream' = stream)]_vars

C16_Witness ==
  /\ Deferred /\ Len(runs) = 2 /\ eager.pc = "hashSettled" /\ stream = <<>>
  /\ runs[1].pc = "rejected" /\ runs[2].pc = "rejected"
  /\ response.status = op.status

(***************************************************************************)
(* C17: a rejected value, also one rejected before the call, does not keep *)
(* the helper from returning: the call is possible whatever has settled,   *)
(* and what it returned stays a response with the helper's status and a    *)
(* then; the rejection reaches only a caller of then, whose call does not  *)
(* resolve and is rejected with the 500 response holding the settlement    *)
(* records, not with the reason the value rejected with.                   *)
(***************************************************************************)
C17_FailureOnAwait ==
  /\ op = NoOp => ENABLED okCall
  /\ (Deferred /\ \E i \in 1..Size : StateOf(ValueAt(i)) = "rejected") =>
       /\ response =
            [status |-> op.status,
             headers |-> <<Prop("Content-Type", "application/json; charset=utf-8")>>,
             body |-> StreamBody,
             then |-> TRUE]
       /\ \A r \in 1..Len(runs) :
            /\ runs[r].pc # "resolved"
            /\ runs[r].pc = "rejected" =>
                 runs[r].result =
                   [status |-> 500,
                    headers |-> <<Prop("Content-Type",
                                       "application/json; charset=utf-8")>>,
                    body |-> TextBody(SettledText),
                    then |-> FALSE]

C17_Witness ==
  /\ Deferred /\ Size = 2 /\ eager.pc = "hashSettled" /\ stream = <<>>
  /\ \A i \in 1..Size : StateOf(ValueAt(i)) = "rejected"
  /\ \E r \in 1..Len(runs) : runs[r].pc = "rejected"

SomePending == \E i \in 1..Size : StateOf(ValueAt(i)) = "pending"
SomeRejected == \E i \in 1..Size : StateOf(ValueAt(i)) = "rejected"

(***************************************************************************)
(* C18 as written: no settlement call completes while a value is pending:  *)
(* the body stream is empty, and every call of then is still inside its    *)
(* first call, hash.                                                       *)
(***************************************************************************)
C18_Original ==
  (Deferred /\ SomePending) =>
    /\ stream = <<>> /\ eager.pc = "hashSettled"
    /\ \A r \in 1..Len(runs) : runs[r].pc = "hash"

(***************************************************************************)
(* C18: while a value is pending nothing is pushed to the body stream and  *)
(* no push is possible, no call of then has resolved or rejected, and no   *)
(* hashSettled call can complete; hash, however, completes by failing as   *)
(* soon as one value has rejected, pending values notwithstanding, and     *)
(* with no value rejected it does not complete.                            *)
(***************************************************************************)
C18_FanIn ==
  (Deferred /\ SomePending) =>
    /\ stream = <<>> /\ eager.pc = "hashSettled" /\ ~ENABLED EagerPush
    /\ \A r \in 1..Len(runs) :
         /\ runs[r].pc \in {"hash", "hashSettled"}
         /\ runs[r].pc = "hashSettled" => SomeRejected /\ ~ENABLED ThenReject(r)
         /\ runs[r].pc = "hash" =>
              /\ ~ENABLED ThenFulfill(r)
              /\ ENABLED ThenCatch(r) <=> SomeRejected

C18_Witness ==
  /\ Deferred /\ Size = 2 /\ SomePending /\ SomeRejected /\ stream = <<>>
  /\ \E r \in 1..Len(runs) : runs[r].pc = "hashSettled"

(***************************************************************************)
(* C19: for the empty data object hash and hashSettled both give the empty *)
(* object; the helper returns a response with a then and the helper's      *)
(* status, its body is or is about to be the text {}, and every call of    *)
(* then resolves, never rejects, with a response of the helper's status    *)
(* whose body is the text {}.                                              *)
(***************************************************************************)
C19_EmptyMapping ==
  (Deferred /\ Size = 0) =>
    /\ hash(data, ObjectValues(data)) = Obj(<<>>)
    /\ hashSettled(data, ObjectValues(data)) = Obj(<<>>)
    /\ response.then /\ response.status = StatusOf[op.name]
    /\ eager.pc = "hashSettled" => ENABLED EagerPush
    /\ eager.pc = "done" => Delivered("{}")
    /\ \A r \in 1..Len(runs) :
         /\ runs[r].pc \in {"hash", "resolved"}
         /\ runs[r].pc = "hash" => ENABLED ThenFulfill(r) /\ ~ENABLED ThenCatch(r)
         /\ runs[r].pc = "resolved" =>
              /\ runs[r].result.status = StatusOf[op.name]
              /\ runs[r].result.body = TextBody("{}")

C19_Witness ==
  /\ Deferred /\ Size = 0 /\ op.name = "notFound" /\ eager.pc = "done"
  /\ \E r \in 1..Len(runs) : runs[r].pc = "resolved" /\ runs[r].result.status = 404

SettlementCalls == hashCalls + hashSettledCalls

(***************************************************************************)
(* C20 as written: hash and hashSettled are called once in all for an      *)
(* object whose then is never called, the hashSettled of the body, and     *)
(* twice in all once then has been called, the second being hash.          *)
(***************************************************************************)
C20_Original ==
  Deferred =>
    /\ runs = <<>> => hashCalls = 0 /\ hashSettledCalls = 1
    /\ runs # <<>> => hashCalls = 1 /\ hashSettledCalls = 1

(***************************************************************************)
(* C20: the helper calls hashSettled once for the body, and that is the    *)
(* only call for an object whose then is never called; each call of then   *)
(* calls hash once, and calls hashSettled once more exactly when hash has  *)
(* failed, which needs a rejected value: when all calls of then have       *)
(* ended, they have made one call each if no value rejected and two each   *)
(* if one did.                                                             *)
(***************************************************************************)
C20_SettlementCalls ==
  Deferred =>
    /\ eager.pc \in {"hashSettled", "done"}
    /\ runs = <<>> => SettlementCalls = 1
    /\ hashCalls = Len(runs)
    /\ hashSettledCalls \in 1..(1 + Len(runs))
    /\ ~SomeRejected => hashSettledCalls = 1
    /\ (\A r \in 1..Len(runs) : runs[r].pc \in {"resolved", "rejected"}) =>
         SettlementCalls = 1 + Len(runs) * (IF SomeRejected THEN 2 ELSE 1)

C20_Witness ==
  /\ Deferred /\ Len(runs) = 1 /\ runs[1].pc = "rejected" /\ eager.pc = "done"
  /\ SettlementCalls = 3

(***************************************************************************)
(* C22: a call of then is rejected only when every value has settled: one  *)
(* that has been rejected has no pending value, and one whose hash has     *)
(* failed cannot be rejected while a value is pending, so that it is never *)
(* rejected if that value never settles; it can be once none is pending.   *)
(***************************************************************************)
C22_RejectionAfterAll ==
  Deferred =>
    \A r \in 1..Len(runs) :
      /\ runs[r].pc = "rejected" =>
           \A i \in 1..Size : StateOf(ValueAt(i)) # "pending"
      /\ runs[r].pc = "hashSettled" =>
           (ENABLED ThenReject(r) <=>
              \A i \in 1..Size : StateOf(ValueAt(i)) # "pending")

C22_Witness ==
  /\ Deferred /\ Size = 2 /\ ValueAt(1).t = "promise" /\ ValueAt(2).t = "promise"
  /\ StateOf(ValueAt(1)) = "rejected" /\ StateOf(ValueAt(2)) = "fulfilled"
  /\ \E r \in 1..Len(runs) : runs[r].pc = "rejected"

(***************************************************************************)
(* C23: whatever the order in which the values settled and whenever then   *)
(* was called, before, between or after the settlements, a call of then    *)
(* that has ended and the delivered body are what the outcomes of the      *)
(* values determine: rejected with status 500 and the settlement records   *)
(* if a value rejected, resolved with the helper's status and the          *)
(* fulfilled values if none did, and the settlement records as the body.   *)
(***************************************************************************)
C23_OrderIndependent ==
  Deferred =>
    /\ \A r \in Finished :
         /\ runs[r].pc = (IF SomeRejected THEN "rejected" ELSE "resolved")
         /\ runs[r].result.status = (IF SomeRejected THEN 500 ELSE op.status)
         /\ runs[r].result.body =
              TextBody(IF SomeRejected THEN SettledText
                       ELSE Stringify(FulfilledData, "none"))
    /\ eager.pc = "done" => Delivered(SettledText)

C23_Witness ==
  /\ Deferred /\ Size = 2 /\ eager.pc = "done"
  /\ StateOf(ValueAt(1)) = "rejected" /\ StateOf(ValueAt(2)) = "rejected"
  /\ Outcome(ValueAt(1)) # Outcome(ValueAt(2))
  /\ Len(runs) = 2 /\ runs[1].pc = "rejected" /\ runs[2].pc = "rejected"

(***************************************************************************)
(* C25: the body stream is empty or holds exactly one chunk followed by    *)
(* the end marker, and once it holds them no step writes to it, however    *)
(* many times then is called and however the calls interleave with the     *)
(* settlements.                                                            *)
(***************************************************************************)
C25_OneChunkThenEnd ==
  /\ [](stream = <<>> \/
         (Len(stream) = 2 /\ ~stream[1].end /\ stream[2].end))
  /\ [][stream # <<>> => stream' = stream]_vars

C25_Witness ==
  /\ Deferred /\ Len(stream) = 2 /\ ~stream[1].end /\ stream[2].end
  /\ Len(runs) = 2 /\ runs[1].pc = "rejected" /\ runs[2].pc = "rejected"

(***************************************************************************)
(* C27: once every value has settled, a call of then that has not ended    *)
(* can take its next step, and one that has ended takes no further step;   *)
(* the response it ended with, resolved or rejected, has no then, so       *)
(* there is nothing to chain into.                                         *)
(***************************************************************************)
C27_AwaitTerminates ==
  (Deferred /\ ~SomePending) =>
    \A r \in 1..Len(runs) :
      /\ runs[r].pc = "hash" => ENABLED ThenFulfill(r) \/ ENABLED ThenCatch(r)
      /\ runs[r].pc = "hashSettled" => ENABLED ThenReject(r)
      /\ runs[r].pc \in {"resolved", "rejected"} =>
           /\ ~runs[r].result.then
           /\ ~ENABLED ThenFulfill(r)
           /\ ~ENABLED ThenCatch(r)
           /\ ~ENABLED ThenReject(r)

C27_Witness ==
  /\ Deferred /\ response.then /\ HoldsPromise /\ ~SomePending /\ ~SomeRejected
  /\ \E r \in 1..Len(runs) : runs[r].pc = "resolved" /\ ~runs[r].result.then

(***************************************************************************)
(* C28: from the moment the helper has returned, the hashSettled run it    *)
(* started has subscribed to every promise the data object holds, so a     *)
(* promise that rejects afterwards is taken up by that run, which then     *)
(* delivers the body with its rejected record, also when then is never     *)
(* called.                                                                 *)
(***************************************************************************)
C28_RejectionHandled ==
  Deferred =>
    /\ \A p \in PromiseIds : Held(p) => Subscribed(p)
    /\ (runs = <<>> /\ SomeRejected /\ ~SomePending) =>
         /\ eager.pc = "hashSettled" => ENABLED EagerPush
         /\ eager.pc = "done" => Delivered(SettledText)

C28_Witness ==
  /\ Deferred /\ runs = <<>> /\ eager.pc = "done" /\ Len(stream) = 2
  /\ \E p \in PromiseIds :
       Held(p) /\ Subscribed(p) /\ promises[p].state = "rejected"

\* the settlement records with the fulfilled values as JSON encodes them by
\* itself and the reasons with their Errors expanded
RecordsReasonsOnly ==
  Braces([i \in 1..Size |->
    RecordText(i, IF IsRejected(ValueAt(i))
                  THEN ReasonAmended(Outcome(ValueAt(i)))
                  ELSE Stringify(Outcome(ValueAt(i)), "none"))])

\* the settlement records with the Errors expanded in every outcome
RecordsExpanded ==
  Braces([i \in 1..Size |->
    RecordText(i, Stringify(ExpandErrors(Outcome(ValueAt(i))), "none"))])

ResolvedBodiesPlain ==
  \A r \in 1..Len(runs) :
    runs[r].pc = "resolved" =>
      runs[r].result.body =
        TextBody(ResolvedBodyOf(
          [i \in 1..Size |-> Stringify(Outcome(ValueAt(i)), "none")]))

(***************************************************************************)
(* C29 as written: a resolved then encodes each fulfilled value as JSON    *)
(* does by itself, and so do the fulfilled records of the provisional body *)
(* and of a rejected then; only the reasons have their Errors expanded.    *)
(***************************************************************************)
C29_Original ==
  Deferred => ResolvedBodiesPlain /\ SettledBodiesAre(RecordsReasonsOnly)

(***************************************************************************)
(* C29: a resolved then encodes each fulfilled value as JSON does by       *)
(* itself, an Error as {}; the provisional body and the body of a rejected *)
(* then expand the Errors in every outcome, fulfilled values and what is   *)
(* nested in them included, so that the two encodings of a fulfilled value *)
(* are equal when it contains no Error.                                    *)
(***************************************************************************)
C29_FulfilledEncoding ==
  Deferred =>
    /\ ResolvedBodiesPlain
    /\ SettledBodiesAre(RecordsExpanded)
    /\ \A i \in 1..Size :
         ExpandErrors(Outcome(ValueAt(i))) = Outcome(ValueAt(i)) =>
           Stringify(Outcome(ValueAt(i)), "errorReplacer") =
             Stringify(Outcome(ValueAt(i)), "none")

C29_Witness ==
  /\ Deferred /\ Size = 2 /\ eager.pc = "done"
  /\ \E i \in 1..Size : IsFulfilled(ValueAt(i)) /\ Outcome(ValueAt(i)).t = "object"
  /\ \E i \in 1..Size : IsRejected(ValueAt(i))
  /\ \E r \in 1..Len(runs) : runs[r].pc = "rejected"

(***************************************************************************)
(* C26: when every held promise settles, each call of then eventually ends *)
(* by calling cb or eb, and once it has it never changes again: cb with    *)
(* the resolved response when no value rejected, eb with the 500 response  *)
(* when one did; the call of then itself calls neither, it leaves the run  *)
(* inside hash.                                                            *)
(***************************************************************************)
C26_OneCallback ==
  /\ \A r \in 1..MaxThen :
       (Len(runs) >= r) ~>
         (Len(runs) >= r /\ runs[r].pc \in {"resolved", "rejected"})
  /\ [][\A r \in 1..Len(runs) :
          runs[r].pc \in {"resolved", "rejected"} => runs'[r] = runs[r]]_vars
  /\ [][Len(runs') > Len(runs) => runs'[Len(runs')].pc = "hash"]_vars
  /\ [](Deferred =>
         \A r \in 1..Len(runs) :
           /\ runs[r].pc = "resolved" =>
                ~SomeRejected /\ runs[r].result.status = op.status
           /\ runs[r].pc = "rejected" =>
                SomeRejected /\ runs[r].result.status = 500)

C26_Witness ==
  /\ Deferred /\ Size = 2 /\ HoldsPromise /\ SomeRejected /\ Len(runs) = 1
  /\ runs[1].pc = "rejected" /\ runs[1].result.status = 500

(***************************************************************************)
(* C30: the hashSettled run started by the helper is never abandoned or    *)
(* started again: once the helper has returned, the body is eventually     *)
(* delivered when every held promise settles, whether or not then is       *)
(* called; until then the run keeps the values it waits for, and when it   *)
(* is done it stays done, also after a call of then has resolved or        *)
(* rejected.                                                               *)
(***************************************************************************)
C30_NoCancellation ==
  /\ Deferred ~> (eager.pc = "done" /\ Len(stream) = 2)
  /\ [][eager.pc = "done" => eager' = eager]_vars
  /\ [][eager.pc = "hashSettled" =>
          /\ eager'.values = eager.values
          /\ eager'.pc \in {"hashSettled", "done"}]_vars

C30_Witness ==
  /\ Deferred /\ eager.pc = "done" /\ Len(stream) = 2
  /\ Len(runs) = 1 /\ runs[1].pc = "rejected"

\* the keys of the data object when the helper was called: a data object
\* passed to a helper has the first keys of Keys, one per value read
KeysAtCall == [i \in 1..Len(eager.values) |-> Keys[i]]

\* one settlement record per key the data object had at the call, for the
\* value it then held under that key
RecordsAtCall ==
  Braces([i \in 1..Len(eager.values) |->
    Quote(KeysAtCall[i]) \o ":" \o
      (IF IsRejected(eager.values[i])
       THEN "{\"status\":\"rejected\",\"reason\":"
       ELSE "{\"status\":\"fulfilled\",\"value\":")
      \o Stringify(Outcome(eager.values[i]), "errorReplacer") \o "}"])

(***************************************************************************)
(* C24: the delivered body pairs every key the data object had when the    *)
(* helper was called with the outcome of the value it held under that key  *)
(* then, also when the caller has deleted, added or replaced a property    *)
(* of the data object while a value was pending.                           *)
(***************************************************************************)
C24_KeysPairValues ==
  (Deferred /\ eager.pc = "done") => Delivered(RecordsAtCall)

\* one settlement record per key of data object d
SettledTextOf(d) ==
  Braces([i \in 1..Len(d.props) |->
    Quote(d.props[i].key) \o ":" \o
      (IF IsRejected(d.props[i].value)
       THEN "{\"status\":\"rejected\",\"reason\":"
       ELSE "{\"status\":\"fulfilled\",\"value\":")
      \o Stringify(Outcome(d.props[i].value), "errorReplacer") \o "}"])

\* d with every promise replaced by the value it fulfilled with
FulfilledOf(d) ==
  Obj([i \in 1..Len(d.props) |-> Prop(d.props[i].key, Outcome(d.props[i].value))])

\* what a response, its stream and its ended calls of then must be, given
\* only the helper called, its data object and the outcomes of the values
\* that object holds
OwnOutcome(o, d, resp, strm, eagerRun, thenRuns) ==
  LET rejected == \E i \in 1..Len(d.props) : IsRejected(d.props[i].value) IN
    /\ resp.status = o.status
    /\ resp.headers = <<Prop("Content-Type", "application/json; charset=utf-8")>>
    /\ eagerRun.pc = "hashSettled" => strm = <<>>
    /\ eagerRun.pc = "done" => strm = <<Chunk(SettledTextOf(d)), EndOfStream>>
    /\ \A r \in 1..Len(thenRuns) :
         thenRuns[r].pc \in {"resolved", "rejected"} =>
           /\ thenRuns[r].pc = (IF rejected THEN "rejected" ELSE "resolved")
           /\ thenRuns[r].result.status = (IF rejected THEN 500 ELSE o.status)
           /\ thenRuns[r].result.body =
                TextBody(IF rejected THEN SettledTextOf(d)
                         ELSE Stringify(FulfilledOf(d), "none"))

(***************************************************************************)
(* C21: of two responses in use at the same time, both returned by ok, a   *)
(* step that changes what belongs to one (its call, its stream, its calls  *)
(* of then) leaves everything of the other as it is, and the status,       *)
(* headers, delivered body and ended calls of then of each are what its    *)
(* own data object and the outcomes of its own values determine, also when *)
(* the two data objects hold the same promise.                             *)
(***************************************************************************)
C21_Independent ==
  /\ [][other' # other =>
          UNCHANGED <<op, data, init, url, response, stream, eager, runs>>]_vars
  /\ [][<<op, data, init, url, response, stream, eager, runs>>' #
          <<op, data, init, url, response, stream, eager, runs>> =>
            other' = other]_vars
  /\ [](Deferred => OwnOutcome(op, data, response, stream, eager, runs))
  /\ [](other.op # NoOp =>
          OwnOutcome(other.op, other.data, other.response, other.stream,
                     other.eager, other.runs))

C21_Witness ==
  /\ Deferred /\ other.op = op
  /\ data = Obj(<<Prop("a", Promise(1))>>) /\ promises[1].state = "fulfilled"
  /\ other.data = Obj(<<Prop("a", Promise(MaxKeys))>>)
  /\ promises[MaxKeys].state = "rejected"
  /\ eager.pc = "done" /\ other.eager.pc = "done" /\ stream # other.stream
  /\ Len(runs) = 1 /\ runs[1].pc = "resolved"
  /\ Len(other.runs) = 1 /\ other.runs[1].pc = "rejected"

====
